---- MODULE Spec2Model ----
(***************************************************************************)
(* GPIB instrument wrappers of SDRAST/Instruments_Agilent.                 *)
(*                                                                         *)
(* One instrument object per behaviour: a power meter of class HP43x.PM    *)
(* (src/HP43x.py), a power meter of the package-level class PM             *)
(* (src/__init__.py), or a signal generator SG (src/__init__.py).  The     *)
(* GPIB transport (Gpib.write/read/clear) is the environment: every call   *)
(* of it either succeeds or raises, and a read that succeeds returns a     *)
(* string chosen by the instrument.                                        *)
(*                                                                         *)
(* Python strings that the code slices or parses are sequences of          *)
(* one-character strings; Python index i is TLA+ index i+1.  Command       *)
(* strings, which the code only sends, are TLA+ strings.                   *)
(***************************************************************************)
EXTENDS Integers, Sequences, FiniteSets, TLC

VARIABLES
  cls,           \* the class of the object: "HP43x" (HP43x.PM), "pkg" (PM), "SG"
  pm_type,       \* self.pm_type
  attrs,         \* which of mode, filtercode, num_averages the object has
  mode,          \* self.mode ("" while the attribute does not exist)
  filtercode,    \* self.filtercode (0 while the attribute does not exist)
  num_averages,  \* self.num_averages (0 while the attribute does not exist)
  pc,            \* "new", "idle", "readings", "zero_wait" or "failed"
  call           \* the call in progress, or else the last one made

vars == <<cls, pm_type, attrs, mode, filtercode, num_averages, pc, call>>

(***************************************************************************)
(* Bounds of the model.                                                    *)
(***************************************************************************)
\* largest num passed to get_readings
MaxNum == 2
\* largest number of consecutive "06" (still zeroing) answers in one zero()
MaxPolls == 2

(***************************************************************************)
(* Strings.                                                                *)
(***************************************************************************)
Digits == <<"0", "1", "2", "3", "4", "5", "6", "7", "8", "9">>

IsDigit(c) == \E i \in 1..10 : Digits[i] = c

DigitVal(c) == (CHOOSE i \in 1..10 : Digits[i] = c) - 1

\* s[a:b] of Python for 0 <= a <= b
Slice(s, a, b) ==
  LET hi == IF b < Len(s) THEN b ELSE Len(s)
  IN  IF a >= hi THEN <<>> ELSE SubSeq(s, a + 1, hi)

\* re.search(pat, s) for a pattern without metacharacters: pat occurs in s
Search(pat, s) ==
  \E i \in 0..(Len(s) - Len(pat)) : Slice(s, i, i + Len(pat)) = pat

T436 == <<"4", "3", "6">>
T437 == <<"4", "3", "7">>
T438 == <<"4", "3", "8">>
TE4418 == <<"E", "4", "4", "1", "8">>
TE4419 == <<"E", "4", "4", "1", "9">>

\* pm_type : model number (436, 437, 438, E4418, etc.)
PMTypes == {T436, T437, T438, TE4418, TE4419}

Is436(t) == Search(T436, t)

Is437or438(t) == Search(T437, t) \/ Search(T438, t)

Is437or438orE4418(t) == Search(T437, t) \/ Search(T438, t) \/ Search(TE4418, t)

(***************************************************************************)
(* Python values.                                                          *)
(***************************************************************************)
None == "None"

PyInt(n) == [t |-> "int", v |-> n, e |-> 0, s |-> ""]

PyStr(c) == [t |-> "str", v |-> 0, e |-> 0, s |-> c]

\* the float v * 10^e
PyFloat(v, e) == [t |-> "float", v |-> v, e |-> e, s |-> ""]

\* x > y of Python 2: numbers compare by value, and a number is smaller than
\* any object of another type, so a str is greater than every int
Py2Gt(x, y) ==
  IF x.t = "int" /\ y.t = "int" THEN x.v > y.v
  ELSE IF x.t = "str" /\ y.t = "int" THEN TRUE
  ELSE IF x.t = "int" /\ y.t = "str" THEN FALSE
  ELSE FALSE

(***************************************************************************)
(* Transport events and outcomes.                                          *)
(***************************************************************************)
\* an attempted self.write(cmd); ok is FALSE when the call raised
Wr(cmd, ok) == [k |-> "w", cmd |-> cmd, resp |-> <<>>, ok |-> ok]

\* an attempted self.read(); rd.ok is FALSE when the call raised
Rd(rd) == [k |-> "r", cmd |-> "", resp |-> rd.s, ok |-> rd.ok]

\* self.clear()
Clr(ok) == [k |-> "c", cmd |-> "", resp |-> <<>>, ok |-> ok]

ReadFail == [ok |-> FALSE, s |-> <<>>]

ReadOf(s) == [ok |-> TRUE, s |-> s]

\* the status string of the comment in get_mode
ExampleResponse ==
  <<"0", "0", "0", "0", "0", "0", "1", "5", "1", "1", "0", "5",
    "1", "7", "0", "A", "0", "0", "0", "2", "0", "0", "0">>

\* the first n characters of the example with the two status characters
\* (Python offsets 4 and 5), the units character (offset 14) and the
\* relative-mode character (offset 17) set
Fixture(n, st, u, r) ==
  [i \in 1..n |->
     IF i = 5 THEN st[1]
     ELSE IF i = 6 THEN st[2]
     ELSE IF i = 15 THEN u
     ELSE IF i = 18 THEN r
     ELSE ExampleResponse[i]]

Zeroing == <<"0", "6">>

NotZeroing == <<"0", "0">>

UnitChars == {"0", "1", "2", "A"}

RelChars == {"0", "1"}

\* what the read of get_mode may return: every units and relative-mode
\* character at every length around the two offsets
ModeResponses ==
  {Fixture(n, NotZeroing, u, r) : n \in {14, 15, 17, 18},
                                  u \in UnitChars, r \in RelChars}

\* what the transport may do in get_mode: the write raises, or it succeeds
\* and the read raises or returns a response
ModeTransport ==
  {[wok |-> FALSE, rd |-> ReadFail], [wok |-> TRUE, rd |-> ReadFail]}
    \cup {[wok |-> TRUE, rd |-> ReadOf(s)] : s \in ModeResponses}

\* what a read of zero may return: both status fields at every length
\* around the slice [4:6]
ZeroResponses ==
  {Fixture(n, st, "0", "0") : n \in {0, 5, 23}, st \in {Zeroing, NotZeroing}}

ZeroReads == {ReadFail} \cup {ReadOf(s) : s \in ZeroResponses}

\* what a read of a reading may return
ReadingStrings ==
  { <<"+", "1", ".", "5", "E", "-", "3", "\r", "\n">>,
    <<"O", "L">> }

ReadingReads == {ReadFail} \cup {ReadOf(s) : s \in ReadingStrings}

(***************************************************************************)
(* float(s.strip()) of a reading.                                          *)
(***************************************************************************)
Whitespace == {" ", "\t", "\n", "\r"}

RECURSIVE LStrip(_)
LStrip(s) ==
  IF s # <<>> /\ s[1] \in Whitespace THEN LStrip(Tail(s)) ELSE s

RECURSIVE RStrip(_)
RStrip(s) ==
  IF s # <<>> /\ s[Len(s)] \in Whitespace
    THEN RStrip(SubSeq(s, 1, Len(s) - 1))
    ELSE s

\* str.strip()
Strip(s) == RStrip(LStrip(s))

\* how many digits s has from index i on
RECURSIVE DigitRun(_, _)
DigitRun(s, i) ==
  IF i <= Len(s) /\ IsDigit(s[i]) THEN 1 + DigitRun(s, i + 1) ELSE 0

\* the number a sequence of digits denotes
RECURSIVE NatOf(_)
NatOf(ds) ==
  IF ds = <<>> THEN 0
  ELSE 10 * NatOf(SubSeq(ds, 1, Len(ds) - 1)) + DigitVal(ds[Len(ds)])

\* float(s) for decimal literals: [sign] digits [. digits] [E [sign] digits];
\* ok is FALSE where float raises ValueError
Float(s) ==
  LET signed == Len(s) >= 1 /\ s[1] \in {"+", "-"}
      neg    == Len(s) >= 1 /\ s[1] = "-"
      p0     == IF signed THEN 2 ELSE 1
      ni     == DigitRun(s, p0)
      p1     == p0 + ni
      hasdot == p1 <= Len(s) /\ s[p1] = "."
      nf     == IF hasdot THEN DigitRun(s, p1 + 1) ELSE 0
      p2     == IF hasdot THEN p1 + 1 + nf ELSE p1
      hasexp == p2 <= Len(s) /\ s[p2] \in {"e", "E"}
      esign  == hasexp /\ p2 + 1 <= Len(s) /\ s[p2 + 1] \in {"+", "-"}
      eneg   == esign /\ s[p2 + 1] = "-"
      p3     == IF esign THEN p2 + 2 ELSE p2 + 1
      ne     == IF hasexp THEN DigitRun(s, p3) ELSE 0
      pend   == IF hasexp THEN p3 + ne ELSE p2
      ok     == ni + nf >= 1 /\ (hasexp => ne >= 1) /\ pend = Len(s) + 1
      mant   == NatOf(SubSeq(s, p0, p1 - 1) \o SubSeq(s, p1 + 1, p1 + nf))
      ex     == IF hasexp THEN NatOf(SubSeq(s, p3, p3 + ne - 1)) ELSE 0
  IN  IF ok
        THEN [ok |-> TRUE,
              val |-> PyFloat(IF neg THEN 0 - mant ELSE mant,
                              (IF eneg THEN 0 - ex ELSE ex) - nf)]
        ELSE [ok |-> FALSE, val |-> PyInt(0)]

(***************************************************************************)
(* PM: the power meter (both classes).                                     *)
(***************************************************************************)
PMClasses == {"HP43x", "pkg"}

InitCommand == "LM0LNAPTR3RAENFM5ENRE3EN\r\n"

\* the filter codes PM.response_time is keyed on
ResponseTimeKeys == 0..9

\* PM._n_avgs_ with a product for the power
n_avgs_product(f) == 2 * f

\* PM._n_avgs_ for filter code f
n_avgs(f) == 2 ^ f

\* whether the module of class c has a name sleep
SleepImported(c) == c # "HP43x"

\* the part of get_mode after the read: the mode label of a response
ParseMode(response) ==
  IF Len(response) >= 15 /\ ~IsDigit(response[15])
    THEN [ret |-> None, raised |-> "ValueError"]
    ELSE
      LET units == IF Len(response) >= 15 THEN DigitVal(response[15]) ELSE -1
          base == IF units = 0 THEN "W" ELSE IF units = 1 THEN "dBm" ELSE "?"
          rel_mode == IF Len(response) >= 18 THEN PyStr(response[18])
                      ELSE PyInt(-1)
      IN  [ret |-> IF Py2Gt(rel_mode, PyInt(0)) THEN base \o " rel" ELSE base,
           raised |-> ""]

\* PM.get_mode on a meter of type t: tr.wok is whether the write succeeds,
\* tr.rd what the read does.  The traffic, the value returned and the
\* exception that leaves the method ("" when none does).
get_mode(t, tr) ==
  IF Is437or438orE4418(t)
    THEN IF ~tr.wok
           THEN [io |-> <<Wr("SM", FALSE)>>, ret |-> None, raised |-> ""]
         ELSE IF ~tr.rd.ok
           THEN [io |-> <<Wr("SM", TRUE), Rd(tr.rd)>>, ret |-> None,
                 raised |-> ""]
         ELSE [io |-> <<Wr("SM", TRUE), Rd(tr.rd)>>,
               ret |-> ParseMode(tr.rd.s).ret,
               raised |-> ParseMode(tr.rd.s).raised]
    ELSE [io |-> <<>>, ret |-> None, raised |-> ""]

\* the command set_mode(m) sends to a meter of type t ("" when it sends none)
SetModeCommand(t, m) ==
  IF m = "W"
    THEN IF Is436(t) THEN "9A+V"
         ELSE IF Is437or438orE4418(t) THEN "LN"
         ELSE ""
    ELSE IF Is436(t) THEN "9D+V"
         ELSE IF Is437or438orE4418(t) THEN "LG"
         ELSE ""

\* the value set_mode(m) gives the mode field
SetModeField(m) == IF m = "W" THEN "W" ELSE "dBm"

\* the configuration zero writes before zeroing ("" when zero does nothing)
ZeroConfig(t) ==
  IF Is436(t) THEN "LM0LNTR3RM1ENFM5EN"
  ELSE IF Is437or438(t) THEN "LM0LNAPTR3RM1ENFM5EN"
  ELSE ""

\* the configuration zero writes after zeroing
ZeroRestore(t) ==
  IF Is436(t) THEN "LM0LNTR3RM4ENFM5EN"
  ELSE IF Is437or438(t) THEN "LM0LNAPTR3RM4ENFM5EN"
  ELSE ""

\* the status slice taken one character late
ZeroStatusLate(response) == Slice(response, 5, 7)

\* status = self.read()[4:6]
ZeroStatus(response) == Slice(response, 4, 6)

(***************************************************************************)
(* Calls.                                                                  *)
(***************************************************************************)
\* a call: st is "running", "returned" or "raised"; ret is the mode value
\* returned (None where the method returns nothing)
Call(op, m, num) ==
  [op |-> op, m |-> m, num |-> num, io |-> <<>>, readings |-> <<>>,
   ret |-> None, st |-> "running", raised |-> ""]

Returned(c, io, ret) ==
  [c EXCEPT !.io = io, !.ret = ret, !.st = "returned"]

Raised(c, io, exc) ==
  [c EXCEPT !.io = io, !.st = "raised", !.raised = exc]

TransportError == "IOError"

Init ==
  /\ cls \in PMClasses \cup {"SG"}
  /\ pm_type \in IF cls = "SG" THEN {<<>>} ELSE PMTypes
  /\ attrs = {}
  /\ mode = ""
  /\ filtercode = 0
  /\ num_averages = 0
  /\ pc = "new"
  /\ call = Call("", "", 0)

\* the body of PM.init in class c: wok is whether the write succeeds, lok
\* whether self.logger exists (Gpib, which is not part of the repository,
\* would have to provide it)
init(c, t, wok, lok) ==
  IF Is437or438(t)
    THEN IF ~wok
           THEN [io |-> <<Wr(InitCommand, FALSE)>>, raised |-> TransportError,
                 sets |-> FALSE]
           ELSE [io |-> <<Wr(InitCommand, TRUE)>>, raised |-> "",
                 sets |-> c = "HP43x"]
    ELSE [io |-> <<>>,
          raised |-> IF c = "HP43x" /\ ~lok THEN "AttributeError" ELSE "",
          sets |-> FALSE]

\* PM.__init__ of src/__init__.py: mode = get_mode(), then init()
ConstructPkg ==
  /\ pc = "new"
  /\ cls = "pkg"
  /\ \E tr \in ModeTransport, iok \in BOOLEAN :
       LET c  == Call("__init__", "", 0)
           gm == get_mode(pm_type, tr)
           in == init(cls, pm_type, iok, TRUE)
       IN  IF gm.raised # ""
             THEN /\ call' = Raised(c, gm.io, gm.raised)
                  /\ pc' = "failed"
                  /\ UNCHANGED <<attrs, mode>>
             ELSE /\ mode' = gm.ret
                  /\ attrs' = attrs \cup {"mode"}
                  /\ IF in.raised # ""
                       THEN /\ call' = Raised(c, gm.io \o in.io, in.raised)
                            /\ pc' = "failed"
                       ELSE /\ call' = Returned(c, gm.io \o in.io, None)
                            /\ pc' = "idle"
  /\ UNCHANGED <<cls, pm_type, filtercode, num_averages>>

\* what init does to the fields of an HP43x.PM when it reaches them
InitFields ==
  /\ filtercode' = 5
  /\ num_averages' = n_avgs(5)
  /\ mode' = "LN"
  /\ attrs' = attrs \cup {"mode", "filtercode", "num_averages"}

\* PM.__init__ of src/HP43x.py: init()
ConstructHP43x ==
  /\ pc = "new"
  /\ cls = "HP43x"
  /\ \E iok \in BOOLEAN, lok \in BOOLEAN :
       LET c  == Call("__init__", "", 0)
           in == init(cls, pm_type, iok, lok)
       IN  /\ IF in.raised # ""
                THEN /\ call' = Raised(c, in.io, in.raised)
                     /\ pc' = "failed"
                ELSE /\ call' = Returned(c, in.io, None)
                     /\ pc' = "idle"
           /\ IF in.sets
                THEN InitFields
                ELSE UNCHANGED <<attrs, mode, filtercode, num_averages>>
  /\ UNCHANGED <<cls, pm_type>>

\* a call of PM.init
PMInit ==
  /\ pc = "idle"
  /\ cls \in PMClasses
  /\ \E iok \in BOOLEAN, lok \in BOOLEAN :
       LET c  == Call("init", "", 0)
           in == init(cls, pm_type, iok, lok)
       IN  /\ call' = IF in.raised # "" THEN Raised(c, in.io, in.raised)
                      ELSE Returned(c, in.io, None)
           /\ IF in.sets
                THEN InitFields
                ELSE UNCHANGED <<attrs, mode, filtercode, num_averages>>
  /\ UNCHANGED <<cls, pm_type, pc>>

\* a call of PM.get_mode
GetMode ==
  /\ pc = "idle"
  /\ cls \in PMClasses
  /\ \E tr \in ModeTransport :
       LET c  == Call("get_mode", "", 0)
           gm == get_mode(pm_type, tr)
       IN  call' = IF gm.raised # "" THEN Raised(c, gm.io, gm.raised)
                   ELSE Returned(c, gm.io, gm.ret)
  /\ UNCHANGED <<cls, pm_type, attrs, mode, filtercode, num_averages, pc>>

ModeArgs == {"W", "dBm", "mW"}

\* a call of PM.set_mode(m)
SetMode ==
  /\ pc = "idle"
  /\ cls \in PMClasses
  /\ \E m \in ModeArgs, wok \in BOOLEAN :
       LET c   == Call("set_mode", m, 0)
           cmd == SetModeCommand(pm_type, m)
       IN  IF cmd # "" /\ ~wok
             THEN /\ call' = Raised(c, <<Wr(cmd, FALSE)>>, TransportError)
                  /\ UNCHANGED <<attrs, mode>>
             ELSE /\ call' = Returned(c, IF cmd # "" THEN <<Wr(cmd, TRUE)>>
                                         ELSE <<>>, None)
                  /\ mode' = SetModeField(m)
                  /\ attrs' = attrs \cup {"mode"}
  /\ UNCHANGED <<cls, pm_type, filtercode, num_averages, pc>>

\* the entry get_readings appends for one read
Reading(rd) ==
  IF rd.ok /\ Float(Strip(rd.s)).ok THEN Float(Strip(rd.s)).val ELSE PyInt(0)

\* a call of PM.get_readings(num), up to the loop: clear(), then
\* self.mode = self.get_mode()
GetReadingsCall ==
  /\ pc = "idle"
  /\ cls \in PMClasses
  /\ \E num \in 0..MaxNum, cok \in BOOLEAN, tr \in ModeTransport :
       LET c  == Call("get_readings", "", num)
           gm == get_mode(pm_type, tr)
       IN  IF ~cok
             THEN /\ call' = Raised(c, <<Clr(FALSE)>>, TransportError)
                  /\ UNCHANGED <<attrs, mode, pc>>
           ELSE IF gm.raised # ""
             THEN /\ call' = Raised(c, <<Clr(TRUE)>> \o gm.io, gm.raised)
                  /\ UNCHANGED <<attrs, mode, pc>>
           ELSE /\ mode' = gm.ret
                /\ attrs' = attrs \cup {"mode"}
                /\ IF num = 0
                     THEN /\ call' = Returned(c, <<Clr(TRUE)>> \o gm.io, gm.ret)
                          /\ pc' = pc
                     ELSE /\ call' = [c EXCEPT !.io = <<Clr(TRUE)>> \o gm.io]
                          /\ pc' = "readings"
  /\ UNCHANGED <<cls, pm_type, filtercode, num_averages>>

\* one round of the loop of get_readings: a read, the entry appended, and
\* sleep(0.5) unless this was the last round
GetReadingsStep ==
  /\ pc = "readings"
  /\ \E rd \in ReadingReads :
       LET i  == Len(call.readings)
           c  == [call EXCEPT !.readings = Append(@, Reading(rd))]
           io == Append(call.io, Rd(rd))
       IN  IF i < call.num - 1
             THEN IF SleepImported(cls)
                    THEN /\ call' = [c EXCEPT !.io = io]
                         /\ pc' = pc
                    ELSE /\ call' = Raised(c, io, "NameError")
                         /\ pc' = "idle"
             ELSE /\ call' = Returned(c, io, mode)
                  /\ pc' = "idle"
  /\ UNCHANGED <<cls, pm_type, attrs, mode, filtercode, num_averages>>

\* a call of PM.zero, up to the loop: the configuration and the zero command
ZeroCall ==
  /\ pc = "idle"
  /\ cls \in PMClasses
  /\ \E ok1 \in BOOLEAN, ok2 \in BOOLEAN :
       LET c   == Call("zero", "", 0)
           cfg == ZeroConfig(pm_type)
       IN  IF cfg = ""
             THEN /\ call' = Returned(c, <<>>, None)
                  /\ pc' = pc
           ELSE IF ~ok1
             THEN /\ call' = Raised(c, <<Wr(cfg, FALSE)>>, TransportError)
                  /\ pc' = pc
           ELSE IF ~ok2
             THEN /\ call' = Raised(c, <<Wr(cfg, TRUE), Wr("ZEEN", FALSE)>>,
                                    TransportError)
                  /\ pc' = pc
           ELSE /\ call' = [c EXCEPT !.io = <<Wr(cfg, TRUE), Wr("ZEEN", TRUE)>>]
                /\ pc' = "zero_wait"
  /\ UNCHANGED <<cls, pm_type, attrs, mode, filtercode, num_averages>>

\* how many reads of the call in progress have answered
Polls == Cardinality({i \in 1..Len(call.io) : call.io[i].k = "r"})

\* one round of the loop of zero: the status request and its answer; when
\* the status is no longer "06" the loop ends and the configuration is
\* restored
ZeroPoll ==
  /\ pc = "zero_wait"
  /\ \E wok \in BOOLEAN, rd \in ZeroReads, ok3 \in BOOLEAN :
       LET io1 == Append(call.io, Wr("SM", wok))
           io2 == Append(io1, Rd(rd))
       IN  IF ~wok
             THEN /\ call' = Raised(call, io1, TransportError)
                  /\ pc' = "idle"
           ELSE IF ~rd.ok
             THEN /\ call' = Raised(call, io2, TransportError)
                  /\ pc' = "idle"
           ELSE IF ZeroStatus(rd.s) = Zeroing
             THEN /\ Polls < MaxPolls
                  /\ call' = [call EXCEPT !.io = io2]
                  /\ pc' = pc
           ELSE IF ~ok3
             THEN /\ call' = Raised(call, Append(io2, Wr(ZeroRestore(pm_type), FALSE)),
                                    TransportError)
                  /\ pc' = "idle"
           ELSE /\ call' = Returned(call, Append(io2, Wr(ZeroRestore(pm_type), TRUE)),
                                    None)
                /\ pc' = "idle"
  /\ UNCHANGED <<cls, pm_type, attrs, mode, filtercode, num_averages>>

(***************************************************************************)
(* SG: the signal generator.                                               *)
(***************************************************************************)
Queries == <<"*IDN?", "OUTP:STAT?", "FREQ:CW?", "POW:AMPL?">>

SGFreqs == {2000000000}

SGAmpls == {-10, 0}

FreqCommand(freq) == "FREQ:CW " \o ToString(freq) \o " HZ"

AmplCommand(num) == "POW:AMPL " \o ToString(num) \o " DBM"

\* every command with which the methods of SG change the generator
SettingCommands ==
  {":RF1", ":RF0"} \cup {FreqCommand(f) : f \in SGFreqs}
                   \cup {AmplCommand(a) : a \in SGAmpls}

SGReads == {ReadFail, ReadOf(<<"1">>)}

\* the outcomes the transport may give the four queries
QueryOutcomes == [1..4 -> BOOLEAN \X SGReads]

\* get_status going on to the next query after a failure
RECURSIVE get_status_on(_, _)
get_status_on(k, out) ==
  IF k > Len(Queries) THEN <<>>
  ELSE IF ~out[k][1] THEN <<Wr(Queries[k], FALSE)>> \o get_status_on(k + 1, out)
  ELSE <<Wr(Queries[k], TRUE), Rd(out[k][2])>> \o get_status_on(k + 1, out)

\* the traffic of the try blocks of get_status from the k-th on: each is a
\* write and a read, and a failure of either returns from the method
RECURSIVE get_status(_, _)
get_status(k, out) ==
  IF k > Len(Queries) THEN <<>>
  ELSE IF ~out[k][1] THEN <<Wr(Queries[k], FALSE)>>
  ELSE IF ~out[k][2].ok THEN <<Wr(Queries[k], TRUE), Rd(out[k][2])>>
  ELSE <<Wr(Queries[k], TRUE), Rd(out[k][2])>> \o get_status(k + 1, out)

\* SG.__init__
ConstructSG ==
  /\ pc = "new"
  /\ cls = "SG"
  /\ call' = Returned(Call("__init__", "", 0), <<>>, None)
  /\ pc' = "idle"
  /\ UNCHANGED <<cls, pm_type, attrs, mode, filtercode, num_averages>>

\* a call of SG.init: clear()
SGInit ==
  /\ pc = "idle"
  /\ cls = "SG"
  /\ \E cok \in BOOLEAN :
       call' = IF cok THEN Returned(Call("init", "", 0), <<Clr(TRUE)>>, None)
               ELSE Raised(Call("init", "", 0), <<Clr(FALSE)>>, TransportError)
  /\ UNCHANGED <<cls, pm_type, attrs, mode, filtercode, num_averages, pc>>

\* a method of SG that writes one command
SGWrite(op, cmd, num) ==
  /\ pc = "idle"
  /\ cls = "SG"
  /\ \E wok \in BOOLEAN :
       call' = IF wok THEN Returned(Call(op, "", num), <<Wr(cmd, TRUE)>>, None)
               ELSE Raised(Call(op, "", num), <<Wr(cmd, FALSE)>>, TransportError)
  /\ UNCHANGED <<cls, pm_type, attrs, mode, filtercode, num_averages, pc>>

PowerOn == SGWrite("power_on", ":RF1", 0)

PowerOff == SGWrite("power_off", ":RF0", 0)

SetFreq == \E freq \in SGFreqs : SGWrite("set_freq", FreqCommand(freq), freq)

SetAmpl == \E num \in SGAmpls : SGWrite("set_ampl", AmplCommand(num), num)

\* a call of SG.get_status
GetStatus ==
  /\ pc = "idle"
  /\ cls = "SG"
  /\ \E out \in QueryOutcomes :
       call' = Returned(Call("get_status", "", 0), get_status(1, out), None)
  /\ UNCHANGED <<cls, pm_type, attrs, mode, filtercode, num_averages, pc>>

Next ==
  \/ ConstructPkg
  \/ ConstructHP43x
  \/ PMInit
  \/ GetMode
  \/ SetMode
  \/ GetReadingsCall
  \/ GetReadingsStep
  \/ ZeroCall
  \/ ZeroPoll
  \/ ConstructSG
  \/ SGInit
  \/ PowerOn
  \/ PowerOff
  \/ SetFreq
  \/ SetAmpl
  \/ GetStatus

Spec == Init /\ [][Next]_vars

(***************************************************************************)
(* Properties.                                                             *)
(***************************************************************************)
ModeLabels == {"W", "dBm", "?", "W rel", "dBm rel", "? rel"}

\* the object exists and no call is in progress
Idle == pc = "idle"

\* the object exists
Constructed == pc \in {"idle", "readings", "zero_wait"}

\* the positions of the call's traffic that are writes
Writes == {i \in 1..Len(call.io) : call.io[i].k = "w"}

\* the label the documentation gives a status response: the units character
\* at offset 14 and the relative-mode character at offset 17
DocumentedLabel(response) ==
  LET base == IF Len(response) >= 15 /\ response[15] = "0" THEN "W"
              ELSE IF Len(response) >= 15 /\ response[15] = "1" THEN "dBm"
              ELSE "?"
  IN  IF Len(response) >= 18 /\ response[18] # "0"
        THEN base \o " rel" ELSE base

\* C1: on a 437, 438 or E4418, the label get_mode returns for the response
\* it read is the documented one: 'W', 'dBm' or '?' by the character at
\* offset 14 ('?' also for a response shorter than 15 characters), with
\* ' rel' appended exactly when the response has a character at offset 17
\* that is not '0'.
C1_GetModeLabel ==
  (cls \in PMClasses /\ Idle /\ call.op = "get_mode" /\ call.st = "returned"
     /\ Is437or438orE4418(pm_type) /\ Len(call.io) = 2 /\ call.io[2].ok)
  => call.ret = DocumentedLabel(call.io[2].resp)

\* C2: the mode field of a constructed power meter is defined and is one of
\* 'W', 'dBm', '?', 'W rel', 'dBm rel', '? rel'.
C2_ModeInFixedSet ==
  (cls \in PMClasses /\ Constructed)
  => "mode" \in attrs /\ mode \in ModeLabels

\* C3: get_mode raises nothing whatever the transport does: it returns None
\* or one of the six labels, and None when the write or the read failed or
\* the meter type is unknown.
C3_GetModeFailsSoft ==
  (cls \in PMClasses /\ Idle /\ call.op = "get_mode")
  => /\ call.st = "returned"
     /\ call.ret \in ModeLabels \cup {None}
     /\ (\/ ~Is437or438orE4418(pm_type)
         \/ \E i \in 1..Len(call.io) : ~call.io[i].ok) => call.ret = None

\* C4: a get_readings(num) that got past clear() and get_mode() returns:
\* it has cleared the device first and then read num readings, and it
\* returns num entries in read order, with 0 for each read that failed or
\* was not numeric, together with the mode; no reading and no step between
\* readings makes it raise.
C4_GetReadingsReturns ==
  (cls \in PMClasses /\ Idle /\ call.op = "get_readings"
     /\ call.io[1].ok /\ call.raised # "ValueError")
  => /\ call.st = "returned"
     /\ call.io[1].k = "c"
     /\ Len(call.readings) = call.num
     /\ Len(call.io) >= 1 + call.num
     /\ \A i \in 1..call.num :
          LET e == call.io[Len(call.io) - call.num + i]
          IN  /\ e.k = "r"
              /\ call.readings[i] =
                   IF e.ok /\ Float(Strip(e.resp)).ok
                     THEN Float(Strip(e.resp)).val ELSE PyInt(0)
     /\ call.ret = mode

\* C5: set_mode(m) sends exactly one command, '9A+V' or 'LN' for m = 'W' and
\* '9D+V' or 'LG' for any other m (the first on a 436, the second on a 437,
\* 438 or E4418), after which the mode field is 'W' for m = 'W' and 'dBm'
\* otherwise; a set_mode that sent no command leaves the mode field as it was.
C5_SetModeFollowsCommand ==
  [][ (cls \in PMClasses /\ call'.op = "set_mode")
      => LET sent == {i \in 1..Len(call'.io) : call'.io[i].ok}
             lin  == call'.m = "W"
         IN  /\ Len(call'.io) <= 1
             /\ \A i \in 1..Len(call'.io) :
                  /\ call'.io[i].k = "w"
                  /\ Is436(pm_type)
                       => call'.io[i].cmd = IF lin THEN "9A+V" ELSE "9D+V"
                  /\ Is437or438orE4418(pm_type)
                       => call'.io[i].cmd = IF lin THEN "LN" ELSE "LG"
             /\ (Is436(pm_type) \/ Is437or438orE4418(pm_type))
                  => Len(call'.io) = 1
             /\ sent # {} => /\ "mode" \in attrs'
                             /\ mode' = IF lin THEN "W" ELSE "dBm"
             /\ sent = {} => UNCHANGED <<attrs, mode>> ]_vars

\* C6: an HP43x.PM of type 437 or 438 has, once constructed, a filter code
\* that is a key of response_time (0..9) and num_averages equal to 2 to the
\* power of the filter code, and no step of a method other than init (or
\* the constructor, which calls it) changes either field.
C6_FilterFields ==
  /\ [] ((cls = "HP43x" /\ Is437or438(pm_type) /\ Constructed)
          => /\ {"filtercode", "num_averages"} \subseteq attrs
             /\ filtercode \in ResponseTimeKeys
             /\ num_averages = 2 ^ filtercode)
  /\ [][ call'.op \notin {"init", "__init__"}
           => UNCHANGED <<filtercode, num_averages>> ]_vars

\* a 437 after set_mode has changed the mode field, with the fields init
\* gave it
C6_Witness ==
  /\ cls = "HP43x" /\ pm_type = T437 /\ Idle
  /\ call.op = "set_mode" /\ call.st = "returned" /\ mode = "dBm"
  /\ filtercode = 5 /\ num_averages = 32

\* the status field of a response: its characters 4..5
StatusField(response) ==
  [i \in 1..(IF Len(response) >= 6 THEN 2
             ELSE IF Len(response) = 5 THEN 1 ELSE 0) |-> response[4 + i]]

\* C7: the traffic of zero is, at every moment, a beginning of: the zeroing
\* configuration, 'ZEEN', rounds of a write of 'SM' and one read, and the
\* restore configuration.  Only the last event can be one that raised.  The
\* restore configuration is written only last and only right after a read
\* whose status field is not '06', and a zero that returns has written it.
\* On a meter that is no 436, 437 or 438 zero writes and reads nothing.
C7_ZeroTrafficOrder ==
  (cls \in PMClasses /\ call.op = "zero")
  => LET io == call.io
         n  == Len(io)
         is436 == Is436(pm_type)
         cfg == IF is436 THEN "LM0LNTR3RM1ENFM5EN" ELSE "LM0LNAPTR3RM1ENFM5EN"
         res == IF is436 THEN "LM0LNTR3RM4ENFM5EN" ELSE "LM0LNAPTR3RM4ENFM5EN"
         restores == {i \in 1..n : io[i].k = "w" /\ io[i].cmd = res}
     IN  IF ~(is436 \/ Is437or438(pm_type))
           THEN n = 0 /\ call.st = "returned"
           ELSE
             /\ n >= 1
             /\ \A i \in 1..n :
                  /\ ~io[i].ok => i = n
                  /\ i = 1 => io[i].k = "w" /\ io[i].cmd = cfg
                  /\ i = 2 => io[i].k = "w" /\ io[i].cmd = "ZEEN"
                  /\ (i >= 3 /\ i % 2 = 1 /\ i \notin restores)
                       => io[i].k = "w" /\ io[i].cmd = "SM"
                  /\ (i >= 3 /\ i % 2 = 0) => io[i].k = "r"
                  /\ i \in restores
                       => /\ i = n /\ i >= 5 /\ i % 2 = 1
                          /\ io[i - 1].k = "r" /\ io[i - 1].ok
                          /\ StatusField(io[i - 1].resp) # <<"0", "6">>
                  /\ (io[i].k = "r" /\ io[i].ok /\ i < n
                        /\ StatusField(io[i].resp) = <<"0", "6">>)
                       => io[i + 1].cmd = "SM"
             /\ call.st = "returned"
                  => Cardinality(restores) = 1 /\ io[n].ok
             /\ call.st = "running" => restores = {}

\* a zero of a 438 that returned after two answers of '06' and a third of '00'
C7_Witness ==
  /\ cls \in PMClasses /\ pm_type = T438 /\ Idle
  /\ call.op = "zero" /\ call.st = "returned"
  /\ Len(call.io) = 9
  /\ StatusField(call.io[4].resp) = <<"0", "6">>
  /\ StatusField(call.io[6].resp) = <<"0", "6">>
  /\ StatusField(call.io[8].resp) = <<"0", "0">>
  /\ call.io[9].cmd = "LM0LNAPTR3RM4ENFM5EN"

\* C8: a zero that has started zeroing ends with the restore configuration
\* sent, also when a status read fails (every write succeeding).
C8_ZeroRestores ==
  (cls \in PMClasses /\ Idle /\ call.op = "zero" /\ Len(call.io) >= 2
     /\ \A i \in Writes : call.io[i].ok)
  => \E i \in Writes : call.io[i].cmd = ZeroRestore(pm_type)

\* C9: after the constructor or init has returned on a 437 or 438, whose
\* initialisation string commands linear mode, the mode field is 'W'.
C9_ModeAfterInit ==
  (cls \in PMClasses /\ Is437or438(pm_type) /\ Idle
     /\ call.op \in {"__init__", "init"} /\ call.st = "returned")
  => "mode" \in attrs /\ mode = "W"

\* C10: get_status never raises and returns None.  Its k-th write is the
\* k-th of '*IDN?', 'OUTP:STAT?', 'FREQ:CW?', 'POW:AMPL?'; each write that
\* succeeded is followed by one read; the first write or read that fails is
\* the last event; with no failure all four queries are made; and no write
\* is a command that changes a setting.
C10_GetStatusOrder ==
  (cls = "SG" /\ call.op = "get_status")
  => LET io == call.io
         n  == Len(io)
     IN  /\ call.st = "returned" /\ call.ret = None
         /\ n <= 8
         /\ \A i \in 1..n :
              /\ ~io[i].ok => i = n
              /\ i % 2 = 1 => /\ io[i].k = "w"
                              /\ io[i].cmd = Queries[(i + 1) \div 2]
                              /\ io[i].cmd \notin SettingCommands
                              /\ io[i].ok => i < n
              /\ i % 2 = 0 => io[i].k = "r"
         /\ (\A i \in 1..n : io[i].ok) => n = 8

\* a get_status whose third query was written and whose read of the answer
\* failed: the fourth query was not sent
C10_Witness ==
  /\ cls = "SG" /\ Idle /\ call.op = "get_status"
  /\ Len(call.io) = 6
  /\ call.io[5] = Wr("FREQ:CW?", TRUE)
  /\ call.io[6].k = "r" /\ ~call.io[6].ok

====
